---- MODULE Spec2Model ----
(***************************************************************************)
(* Browzie background service worker (the background.js listing carried    *)
(* in README.md): the per-tab registry of AbortControllers, the two        *)
(* generation handlers (summarize_page, query_gemini), the teardown        *)
(* signals (abort_requests, CLOSE_EXTENSION, tabs.onRemoved) and the       *)
(* lifecycle notifications sent to the content script.                     *)
(*                                                                         *)
(* The service worker is a single-threaded event loop.  One action of the  *)
(* model is one run of JavaScript between two suspension points: a         *)
(* listener invocation up to its first await, or the continuation of an    *)
(* await (fetch, res.text(), res.json()) up to the next one.               *)
(*                                                                         *)
(* JavaScript values:                                                      *)
(*   - a tab id is a positive integer; the value undefined is Undefined;   *)
(*   - the registry key 'no-tab' is NoTabKey;                              *)
(*   - a string is a sequence of string fragments, so that a template      *)
(*     literal is the concatenation of its parts;                          *)
(*   - an object is a record; an absent property is an absent field.       *)
(***************************************************************************)
EXTENDS Integers, Sequences, FiniteSets, TLC

\* ------------------------------------------------------------------ bounds
MaxRuns == 2
MaxTabs == 1
MaxRequests == 2
MaxSends == 2

\* --------------------------------------------------------------- constants
Undefined == -1
NoTabKey == 0

Runs == 1..MaxRuns
Tabs == 1..MaxTabs
\* sender?.tab?.id : a tab id, or undefined for a popup / extension page
Senders == Tabs \cup {Undefined}
Keys == Tabs \cup {NoTabKey}
\* one AbortController is constructed per run; it is named by the run
Controllers == Runs

\* HTTP status codes the proxy answers with (200, or 500/502 on failure)
Statuses == {200, 500}

\* Response.ok : true when the status is in the range 200-299
ResOk(status) == status >= 200 /\ status <= 299

\* Errors a fetch or a body read can reject with, other than the abort.
AbortError == [name |-> "AbortError", message |-> <<"The user aborted a request.">>]
NetworkErrors ==
  { [name |-> "TypeError", message |-> <<"Failed to fetch">>],
    [name |-> "TypeError", message |-> <<"The user aborted a request.">>] }
\* Errors res.text() / res.json() can reject with
BodyReadErrors == { [name |-> "TypeError", message |-> <<"network error">>] }
ParseErrors == { [name |-> "SyntaxError", message |-> <<"Unexpected token < in JSON">>] }

\* Bodies of a non-2xx answer, as res.text() returns them
ErrorBodies == { <<"oops">> }

\* Parsed JSON bodies of a 2xx answer, as res.json() returns them
JsonBodies ==
  { [ok |-> TRUE, text |-> <<"hello">>],
    [ok |-> FALSE, error |-> <<"bad request">>],
    [text |-> <<"hello">>] }

\* ---- the proxy (server.js): HTTP requests, numbered in order of arrival
Requests == 1..MaxRequests

Endpoints == {"/api/generate", "/api/summarize"}

\* r.status of the answers of the Gemini REST API
GeminiStatuses == {200, 429}

\* Parsed bodies of a 2xx answer of the Gemini API; a field stands for the
\* text found (a non-empty string) at data.candidates[0].content.parts[0].text,
\* at data.output[0].content.parts[0].text or at data.text.
GeminiBodies ==
  { [candidates |-> <<"answer">>],
    [output |-> <<"answer">>],
    [text |-> <<"answer">>],
    [promptFeedback |-> <<"SAFETY">>] }

\* null: what r.json().catch(...) of /api/generate yields for an unparsable body
Null == [f \in {} |-> <<>>]

GeminiErrorBodies == { <<"quota exceeded">> }

\* a request that has not arrived yet
NoRequest == [pc |-> "idle", endpoint |-> "none", r |-> 0, calls |-> 0, threw |-> FALSE,
              response |-> [status |-> 0]]

EmptyMap == [k \in {} |-> {}]
\* nothing was passed to sendResponse
NoResponse == <<>>

VARIABLES
  activeFetchControllers,  \* Map: key -> Set<AbortController>
  aborted,                 \* controller.signal.aborted, per controller
  pc,                      \* where each run's async function is suspended
  tabId,                   \* the run's const tabId = sender?.tab?.id
  kind,                    \* "summary" (summarize_page) or "query" (query_gemini)
  res,                     \* status of the Response the run's fetch resolved with
  trace,                   \* per run, the calls made and awaits resumed, in order
  lastResponse,            \* what the last listener call passed to sendResponse, if it was no run
  goneTabs,                \* the tabs the browser has reported removed
  GEMINI_API_KEY,          \* proxy: process.env.GEMINI_API_KEY ("" when not set)
  requests,                \* proxy: per HTTP request, where its handler is and what it did
  chatOpen,                \* page: the element #gai-right-chat is in the document
  chatArea,                \* page: the children of #gai-right-chat-area, in order
  genBtn,                  \* page: the Generate button of the summary panel
  resArea,                 \* page: textContent of #gai-summary-result
  outstanding              \* page: per action, the messages sent whose callback has not run

panelVars == <<chatOpen, chatArea, genBtn, resArea, outstanding>>

vars == <<activeFetchControllers, aborted, pc, tabId, kind, res, trace, lastResponse, goneTabs,
          GEMINI_API_KEY, requests, panelVars>>

\* ------------------------------------------------------------ the registry
KeyOf(tab) == IF tab # Undefined THEN tab ELSE NoTabKey

\* activeFetchControllers.get(key), with {} standing for "no entry"
Get(reg, key) == IF key \in DOMAIN reg THEN reg[key] ELSE {}

MapDelete(reg, key) == [k \in DOMAIN reg \ {key} |-> reg[k]]

MapSet(reg, key, set) == [k \in DOMAIN reg \cup {key} |-> IF k = key THEN set ELSE reg[k]]

\* fault seeded: every controller is put under the 'no-tab' key
addControllerForTab_WrongKey(reg, tab, controller) ==
  LET key == NoTabKey
      withSet == IF key \in DOMAIN reg THEN reg ELSE MapSet(reg, key, {})
  IN  MapSet(withSet, key, withSet[key] \cup {controller})

addControllerForTab(reg, tab, controller) ==
  LET key == KeyOf(tab)
      withSet == IF key \in DOMAIN reg THEN reg ELSE MapSet(reg, key, {})
  IN  MapSet(withSet, key, withSet[key] \cup {controller})

\* fault seeded: a controller that is not in the set empties the set
removeControllerForTab_ClearsSet(reg, tab, controller) ==
  LET key == KeyOf(tab)
  IN  IF key \notin DOMAIN reg THEN reg
      ELSE IF controller \in reg[key] /\ reg[key] # {controller}
           THEN MapSet(reg, key, reg[key] \ {controller})
           ELSE MapDelete(reg, key)

\* fault seeded: the emptied set is left in the map
removeControllerForTab_KeepsEmptySet(reg, tab, controller) ==
  LET key == KeyOf(tab)
  IN  IF key \notin DOMAIN reg THEN reg
      ELSE MapSet(reg, key, reg[key] \ {controller})

\* fault seeded: the key is deleted whatever is left in its set
removeControllerForTab_AlwaysDeletesKey(reg, tab, controller) ==
  MapDelete(reg, KeyOf(tab))

removeControllerForTab(reg, tab, controller) ==
  LET key == KeyOf(tab)
  IN  IF key \notin DOMAIN reg THEN reg
      ELSE LET deleted == MapSet(reg, key, reg[key] \ {controller})
           IN  IF Cardinality(deleted[key]) = 0 THEN MapDelete(deleted, key)
               ELSE deleted

\* fault seeded: the entry is not deleted after the loop
cleanupTab_KeepsEntry(reg, ab, tab) ==
  LET key == KeyOf(tab)
  IN  IF key \notin DOMAIN reg
      THEN [reg |-> reg, ab |-> ab, logged |-> Undefined, ret |-> Undefined]
      ELSE [reg |-> reg,
            ab |-> [c \in Controllers |-> ab[c] \/ c \in reg[key]],
            logged |-> Cardinality(reg[key]),
            ret |-> Undefined]

\* fault seeded: the loop aborts the controllers of every key
cleanupTab_AbortsEveryKey(reg, ab, tab) ==
  LET key == KeyOf(tab)
  IN  IF key \notin DOMAIN reg
      THEN [reg |-> reg, ab |-> ab, logged |-> Undefined, ret |-> Undefined]
      ELSE [reg |-> MapDelete(reg, key),
            ab |-> [c \in Controllers |-> ab[c] \/ \E k \in DOMAIN reg : c \in reg[k]],
            logged |-> Cardinality(reg[key]),
            ret |-> Undefined]

\* fault seeded: the entry is deleted without aborting its controllers
cleanupTab_DeletesWithoutAbort(reg, ab, tab) ==
  LET key == KeyOf(tab)
  IN  IF key \notin DOMAIN reg
      THEN [reg |-> reg, ab |-> ab, logged |-> Undefined, ret |-> Undefined]
      ELSE [reg |-> MapDelete(reg, key),
            ab |-> ab,
            logged |-> Cardinality(reg[key]),
            ret |-> Undefined]

\* fault seeded: without an entry for the key, every controller is aborted
cleanupTab_AbortsAllWhenMissing(reg, ab, tab) ==
  LET key == KeyOf(tab)
  IN  IF key \notin DOMAIN reg
      THEN [reg |-> EmptyMap,
            ab |-> [c \in Controllers |-> ab[c] \/ \E k \in DOMAIN reg : c \in reg[k]],
            logged |-> Undefined, ret |-> Undefined]
      ELSE [reg |-> MapDelete(reg, key),
            ab |-> [c \in Controllers |-> ab[c] \/ c \in reg[key]],
            logged |-> Cardinality(reg[key]),
            ret |-> Undefined]

\* fault seeded: the count written to the console is the size of the map
cleanupTab_CountsKeys(reg, ab, tab) ==
  LET key == KeyOf(tab)
  IN  IF key \notin DOMAIN reg
      THEN [reg |-> reg, ab |-> ab, logged |-> Undefined, ret |-> Undefined]
      ELSE [reg |-> MapDelete(reg, key),
            ab |-> [c \in Controllers |-> ab[c] \/ c \in reg[key]],
            logged |-> Cardinality(DOMAIN reg),
            ret |-> Undefined]

\* cleanupTab returns nothing; `logged` is the count it writes to the console
\* (Undefined when it returns early), `ab` the abort flags after the loop.
cleanupTab(reg, ab, tab) ==
  LET key == KeyOf(tab)
  IN  IF key \notin DOMAIN reg
      THEN [reg |-> reg, ab |-> ab, logged |-> Undefined, ret |-> Undefined]
      ELSE [reg |-> MapDelete(reg, key),
            ab |-> [c \in Controllers |-> ab[c] \/ c \in reg[key]],
            logged |-> Cardinality(reg[key]),
            ret |-> Undefined]

\* ------------------------------------------------------------ notifications
Call(fn, arg) == [fn |-> fn, arg |-> arg]

\* notifyTab: nothing is sent when tabId is undefined.  A message sent to a
\* tab that was removed is not delivered: the callback finds
\* chrome.runtime.lastError set and ignores it, and an exception of
\* sendMessage is caught, so notifyTab returns normally either way.
notifyTab(tab, message) ==
  IF tab = Undefined THEN <<>>
  ELSE << Call("tabs.sendMessage",
               [tabId |-> tab, message |-> message, delivered |-> tab \notin goneTabs]) >>

\* the service worker after its script has run
WorkerInit ==
  /\ activeFetchControllers = EmptyMap
  /\ aborted = [c \in Controllers |-> FALSE]
  /\ pc = [r \in Runs |-> "idle"]
  /\ tabId = [r \in Runs |-> Undefined]
  /\ kind = [r \in Runs |-> "none"]
  /\ res = [r \in Runs |-> 0]
  /\ trace = [r \in Runs |-> <<>>]
  /\ lastResponse = NoResponse
  /\ goneTabs = {}

\* The page after the content script has built a summary panel
\* (openSummaryPanel): no chat panel yet, the Generate button enabled, the
\* result area empty, no message sent.
PanelInit ==
  /\ chatOpen = FALSE
  /\ chatArea = <<>>
  /\ genBtn = [disabled |-> FALSE]
  /\ resArea = <<>>
  /\ outstanding = [a \in {"query_gemini", "summarize_page"} |-> 0]

\* The proxy is another process and the page another context: in the
\* specifications of the service worker the proxy is configured, the page
\* is loaded, and neither takes a step.
Init ==
  /\ WorkerInit
  /\ GEMINI_API_KEY = "key"
  /\ requests = [q \in Requests |-> NoRequest]
  /\ PanelInit

\* ------------------------------------------------------- the two handlers
Kinds == {"summary", "query"}

Url(k) == IF k = "summary" THEN "http://localhost:3000/api/summarize"
          ELSE "http://localhost:3000/api/generate"

\* notifyTab(tabId, message) as the handlers call it: the call, then what it sends
Notify(tab, message) == << Call("notifyTab", message) >> \o notifyTab(tab, message)

\* isAbort ? '<abort text>' : (err && err.message) || String(err)
AbortText(k) == IF k = "summary" THEN <<"Request aborted">>
                ELSE <<"Request aborted (tab closed or navigation occurred).">>

\* fault seeded: the error text is String(err), whatever err.message is
ErrText_StringOfError(k, err) ==
  LET isAbort == err.name = "AbortError"
  IN  IF isAbort THEN AbortText(k)
      ELSE <<err.name, ": ">> \o err.message

\* fault seeded: the abort is recognised by the message of the error
ErrText_ByMessage(k, err) ==
  LET isAbort == err.message = <<"The user aborted a request.">>
  IN  IF isAbort THEN AbortText(k)
      ELSE IF err.message # <<>> THEN err.message ELSE <<err.name>>

ErrText(k, err) ==
  LET isAbort == err.name = "AbortError"
  IN  IF isAbort THEN AbortText(k)
      ELSE IF err.message # <<>> THEN err.message ELSE <<err.name>>

\* the text put in place of a body that res.text() failed to read
UnreadBody(k, e) == IF k = "summary" THEN <<"<unable to read>">>
                    ELSE <<"<failed to read body: ">> \o e.message \o <<">">>

\* fault seeded: the error of the !res.ok branch leaves the status out
ServerError_NoStatus(status, bodyText) == <<"Server error: ">> \o bodyText

ServerError(status, bodyText) == <<"Server error ", ToString(status), ": ">> \o bodyText

\* data?.text and !!data?.ok
TextOf(data) == IF "text" \in DOMAIN data THEN data.text ELSE <<"undefined">>
Truthy(data) == "ok" \in DOMAIN data /\ data.ok

\* fault seeded: the query handler notifies with the kind of the summary handler
FinishedOk_WrongKind(k, data) ==
  [action |-> "generation_finished", ok |-> TRUE, text |-> TextOf(data), data |-> data, kind |-> "summary"]

FinishedOk(k, data) ==
  IF k = "summary"
  THEN [action |-> "generation_finished", ok |-> TRUE, text |-> TextOf(data), data |-> data, kind |-> "summary"]
  ELSE [action |-> "generation_finished", ok |-> TRUE, data |-> data, kind |-> "query"]

ReplyOk(k, data) ==
  IF k = "summary"
  THEN [ok |-> Truthy(data), text |-> TextOf(data), data |-> data]
  ELSE [ok |-> TRUE, data |-> data]

FinishedError(k, error) == [action |-> "generation_finished", ok |-> FALSE, error |-> error, kind |-> k]

ReplyError(error) == [ok |-> FALSE, error |-> error]

\* the synchronous prefix of the async function, up to `await fetch(...)`
StartTrace(k, tab) ==
  << Call("addControllerForTab", tab) >>
  \o Notify(tab, [action |-> "generation_started", kind |-> k])
  \o << Call("fetch", Url(k)) >>

\* fault seeded: the !res.ok branch replies without notifying
UpstreamTrace_NoNotify(k, tab, status, bodyText) ==
  << Call("sendResponse", ReplyError(ServerError(status, bodyText))) >>

\* the !res.ok branch once the body has been read (or has failed to be)
UpstreamTrace(k, tab, status, bodyText) ==
  Notify(tab, FinishedError(k, ServerError(status, bodyText)))
  \o << Call("sendResponse", ReplyError(ServerError(status, bodyText))) >>

\* fault seeded: a notification that cannot be delivered throws, and the
\* catch block replies with the error of the delivery
SuccessTrace_NotifyThrows(k, tab, data) ==
  IF tab = Undefined \/ tab \in goneTabs
  THEN << Call("notifyTab", FinishedOk(k, data)),
          Call("sendResponse", ReplyError(<<"Could not establish connection. Receiving end does not exist.">>)) >>
  ELSE Notify(tab, FinishedOk(k, data)) \o << Call("sendResponse", ReplyOk(k, data)) >>

\* the success path after `await res.json()`
SuccessTrace(k, tab, data) ==
  Notify(tab, FinishedOk(k, data)) \o << Call("sendResponse", ReplyOk(k, data)) >>

\* fault seeded: the catch block replies before it unregisters and notifies
CatchTrace_ReplyFirst(k, tab, err) ==
  << Call("sendResponse", ReplyError(ErrText(k, err))) >>
  \o << Call("removeControllerForTab", tab) >>
  \o Notify(tab, FinishedError(k, ErrText(k, err)))

\* the catch block
CatchTrace(k, tab, err) ==
  << Call("removeControllerForTab", tab) >>
  \o Notify(tab, FinishedError(k, ErrText(k, err)))
  \o << Call("sendResponse", ReplyError(ErrText(k, err))) >>

\* an await resumes: `how` is "resolved" or "rejected", `value` what it resumed with
Settled(what, how, value) == [fn |-> what, arg |-> how, value |-> value]

\* The next AbortController to be constructed: runs are numbered in the
\* order in which their messages are handled.
NextRun == CHOOSE r \in Runs : pc[r] = "idle" /\ \A q \in Runs : q < r => pc[q] # "idle"

\* Tab ids carry no meaning beyond their identity: tabs are numbered in the
\* order in which they first send a generation request.
KnownTabs == { tabId[r] : r \in { q \in Runs : pc[q] # "idle" } } \ {Undefined}

StartRun(k, s) ==
  /\ \E r \in Runs : pc[r] = "idle"
  /\ s = Undefined \/ s <= Cardinality(KnownTabs) + 1
  /\ s \notin goneTabs
  /\ LET r == NextRun
     IN  /\ activeFetchControllers' = addControllerForTab(activeFetchControllers, s, r)
         /\ pc' = [pc EXCEPT ![r] = "awaitFetch"]
         /\ tabId' = [tabId EXCEPT ![r] = s]
         /\ kind' = [kind EXCEPT ![r] = k]
         /\ trace' = [trace EXCEPT ![r] = StartTrace(k, s)]
  /\ lastResponse' = NoResponse
  /\ UNCHANGED <<aborted, res, goneTabs, GEMINI_API_KEY, requests, panelVars>>

\* onMessage, msg.action === 'summarize_page'
SummarizePage(s) ==
  /\ s \in Senders
  /\ StartRun("summary", s)

\* onMessage, msg.action === 'query_gemini'
QueryGemini(s) ==
  /\ s \in Senders
  /\ StartRun("query", s)

\* fault seeded: the catch block does not call removeControllerForTab
Catch_NoRemove(r, what, err) ==
  /\ activeFetchControllers' = activeFetchControllers
  /\ pc' = [pc EXCEPT ![r] = "done"]
  /\ trace' = [trace EXCEPT ![r] = @ \o << Settled(what, "rejected", err) >>
                                     \o Notify(tabId[r], FinishedError(kind[r], ErrText(kind[r], err)))
                                     \o << Call("sendResponse", ReplyError(ErrText(kind[r], err))) >>]
  /\ lastResponse' = NoResponse
  /\ UNCHANGED <<aborted, tabId, kind, res, goneTabs, GEMINI_API_KEY, requests, panelVars>>

\* fault seeded: the catch block cleans up the whole key of its sender
Catch_CleansUpTab(r, what, err) ==
  /\ activeFetchControllers' = cleanupTab(activeFetchControllers, aborted, tabId[r]).reg
  /\ aborted' = cleanupTab(activeFetchControllers, aborted, tabId[r]).ab
  /\ pc' = [pc EXCEPT ![r] = "done"]
  /\ trace' = [trace EXCEPT ![r] = @ \o << Settled(what, "rejected", err) >>
                                     \o CatchTrace(kind[r], tabId[r], err)]
  /\ lastResponse' = NoResponse
  /\ UNCHANGED <<tabId, kind, res, goneTabs, GEMINI_API_KEY, requests, panelVars>>

\* the catch block of a run, entered with the error err
Catch(r, what, err) ==
  /\ activeFetchControllers' = removeControllerForTab(activeFetchControllers, tabId[r], r)
  /\ pc' = [pc EXCEPT ![r] = "done"]
  /\ trace' = [trace EXCEPT ![r] = @ \o << Settled(what, "rejected", err) >>
                                     \o CatchTrace(kind[r], tabId[r], err)]
  /\ lastResponse' = NoResponse
  /\ UNCHANGED <<aborted, tabId, kind, res, goneTabs, GEMINI_API_KEY, requests, panelVars>>

\* fault seeded: the controller stays registered while the body is read
FetchResolved_KeepsController(r) ==
  /\ pc[r] = "awaitFetch"
  /\ ~aborted[r]
  /\ \E status \in Statuses :
       /\ res' = [res EXCEPT ![r] = status]
       /\ pc' = [pc EXCEPT ![r] = IF ~ResOk(status) THEN "awaitText" ELSE "awaitJson"]
       /\ trace' = [trace EXCEPT ![r] = @ \o << Settled("await fetch", "resolved", status),
                                                Call(IF ~ResOk(status) THEN "res.text" ELSE "res.json", status) >>]
  /\ lastResponse' = NoResponse
  /\ UNCHANGED <<activeFetchControllers, aborted, tabId, kind, goneTabs, GEMINI_API_KEY, requests, panelVars>>

\* `await fetch(...)` resumes with a Response: the controller is removed and
\* the run suspends again on the body read its status selects.
FetchResolved(r) ==
  /\ pc[r] = "awaitFetch"
  /\ ~aborted[r]
  /\ \E status \in Statuses :
       /\ res' = [res EXCEPT ![r] = status]
       /\ pc' = [pc EXCEPT ![r] = IF ~ResOk(status) THEN "awaitText" ELSE "awaitJson"]
       /\ trace' = [trace EXCEPT ![r] = @ \o << Settled("await fetch", "resolved", status),
                                                Call("removeControllerForTab", tabId[r]),
                                                Call(IF ~ResOk(status) THEN "res.text" ELSE "res.json", status) >>]
  /\ activeFetchControllers' = removeControllerForTab(activeFetchControllers, tabId[r], r)
  /\ lastResponse' = NoResponse
  /\ UNCHANGED <<aborted, tabId, kind, goneTabs, GEMINI_API_KEY, requests, panelVars>>

\* fault seeded: the fetch does not observe the abort of its signal
FetchRejected_IgnoresAbort(r) ==
  /\ pc[r] = "awaitFetch"
  /\ ~aborted[r]
  /\ \E err \in NetworkErrors : Catch(r, "await fetch", err)

\* `await fetch(...)` throws: an AbortError when the signal has been
\* aborted, a network error otherwise.  The continuation of an aborted
\* fetch is a step of its own: other listener calls may be handled between
\* the controller.abort() and the catch block of the run.
FetchRejected(r) ==
  /\ pc[r] = "awaitFetch"
  /\ \E err \in (IF aborted[r] THEN {AbortError} ELSE NetworkErrors) :
       Catch(r, "await fetch", err)

\* fault seeded: after a non-2xx answer the handler fetches again
TextSettled_Retries(r) ==
  /\ pc[r] = "awaitText"
  /\ \E b \in ErrorBodies :
       trace' = [trace EXCEPT ![r] = @ \o << Settled("await res.text", "resolved", b),
                                              Call("fetch", Url(kind[r])) >>]
  /\ pc' = [pc EXCEPT ![r] = "awaitFetch"]
  /\ lastResponse' = NoResponse
  /\ UNCHANGED <<activeFetchControllers, aborted, tabId, kind, res, goneTabs, GEMINI_API_KEY, requests, panelVars>>

\* `await res.text()` settles inside its own try/catch
TextSettled(r) ==
  /\ pc[r] = "awaitText"
  /\ \/ \E b \in ErrorBodies :
          trace' = [trace EXCEPT ![r] = @ \o << Settled("await res.text", "resolved", b) >>
                                             \o UpstreamTrace(kind[r], tabId[r], res[r], b)]
     \/ \E e \in BodyReadErrors :
          trace' = [trace EXCEPT ![r] = @ \o << Settled("await res.text", "rejected", e) >>
                                             \o UpstreamTrace(kind[r], tabId[r], res[r], UnreadBody(kind[r], e))]
  /\ pc' = [pc EXCEPT ![r] = "done"]
  /\ lastResponse' = NoResponse
  /\ UNCHANGED <<activeFetchControllers, aborted, tabId, kind, res, goneTabs, GEMINI_API_KEY, requests, panelVars>>

\* `await res.json()` resumes with the parsed body
JsonResolved(r) ==
  /\ pc[r] = "awaitJson"
  /\ \E data \in JsonBodies :
       trace' = [trace EXCEPT ![r] = @ \o << Settled("await res.json", "resolved", data) >>
                                          \o SuccessTrace(kind[r], tabId[r], data)]
  /\ pc' = [pc EXCEPT ![r] = "done"]
  /\ lastResponse' = NoResponse
  /\ UNCHANGED <<activeFetchControllers, aborted, tabId, kind, res, goneTabs, GEMINI_API_KEY, requests, panelVars>>

\* fault seeded: res.json() is awaited outside the try, its error is lost
JsonRejected_Unhandled(r) ==
  /\ pc[r] = "awaitJson"
  /\ \E err \in ParseErrors :
       trace' = [trace EXCEPT ![r] = @ \o << Settled("await res.json", "rejected", err) >>]
  /\ pc' = [pc EXCEPT ![r] = "done"]
  /\ lastResponse' = NoResponse
  /\ UNCHANGED <<activeFetchControllers, aborted, tabId, kind, res, goneTabs, GEMINI_API_KEY, requests, panelVars>>

\* `await res.json()` throws: the outer catch block runs
JsonRejected(r) ==
  /\ pc[r] = "awaitJson"
  /\ \E err \in ParseErrors : Catch(r, "await res.json", err)

\* ------------------------------------------------------- teardown signals
Teardown(s, responses) ==
  LET out == cleanupTab(activeFetchControllers, aborted, s)
  IN  /\ lastResponse' = responses
      /\ pc' = pc
      /\ aborted' = out.ab
      /\ activeFetchControllers' = out.reg
      /\ UNCHANGED <<tabId, kind, res, trace, GEMINI_API_KEY, requests, panelVars>>

AbortReply(s) ==
  [ok |-> TRUE,
   message |-> IF s # Undefined THEN <<"aborted for tab ", ToString(s)>>
               ELSE <<"aborted non-tab controllers">>]

\* fault seeded: abort_requests cleans up the controllers without a tab
AbortRequests_IgnoresTab(s) ==
  /\ s \in Senders \ goneTabs
  /\ Teardown(Undefined, << Call("sendResponse", AbortReply(s)) >>)
  /\ UNCHANGED goneTabs

\* onMessage, msg.action === 'abort_requests'
AbortRequests(s) ==
  /\ s \in Senders \ goneTabs
  /\ Teardown(s, << Call("sendResponse", AbortReply(s)) >>)
  /\ UNCHANGED goneTabs

\* fault seeded: CLOSE_EXTENSION is answered like abort_requests
CloseExtension_Replies(s) ==
  /\ s \in Senders \ goneTabs
  /\ Teardown(s, << Call("sendResponse", AbortReply(s)) >>)
  /\ UNCHANGED goneTabs

\* onMessage, msg.type === 'CLOSE_EXTENSION'
CloseExtension(s) ==
  /\ s \in Senders \ goneTabs
  /\ Teardown(s, NoResponse)
  /\ UNCHANGED goneTabs

\* chrome.tabs.onRemoved, as the service worker sees it: cleanupTab(tabId)
TabRemoved(t) ==
  /\ t \in Tabs \ goneTabs
  /\ Teardown(t, NoResponse)
  /\ UNCHANGED goneTabs

\* chrome.tabs.onRemoved, with its cause: the tab is gone, it sends no
\* message afterwards and no message sent to it is delivered
TabClosed(t) ==
  /\ t \in Tabs \ goneTabs
  /\ Teardown(t, NoResponse)
  /\ goneTabs' = goneTabs \cup {t}

Next ==
  \/ \E s \in Senders : SummarizePage(s)
  \/ \E s \in Senders : QueryGemini(s)
  \/ \E r \in Runs : FetchResolved(r)
  \/ \E r \in Runs : FetchRejected(r)
  \/ \E r \in Runs : TextSettled(r)
  \/ \E r \in Runs : JsonResolved(r)
  \/ \E r \in Runs : JsonRejected(r)
  \/ \E t \in Tabs : TabRemoved(t)
  \/ \E s \in Senders : CloseExtension(s)
  \/ \E s \in Senders : AbortRequests(s)

Spec == Init /\ [][Next]_vars

\* What the platform guarantees of the awaits: a fetch whose signal was
\* aborted rejects and its continuation runs, and a body that is being read
\* (res.text(), res.json()) is read to its end or fails.  A fetch whose
\* signal is not aborted may stay pending forever.
Fairness ==
  \A r \in Runs :
    /\ WF_vars(aborted[r] /\ FetchRejected(r))
    /\ WF_vars(TextSettled(r))
    /\ WF_vars(JsonResolved(r) \/ JsonRejected(r))

FairSpec == Spec /\ Fairness

\* ------------------------------------------------------------ the proxy
\* server.js: two Express routes of the same shape.  A step is a run of a
\* route handler between two awaits.  The requests are those the extension
\* sends: a JSON body of the documented shape, for which building the
\* prompt does not throw.
workerVars == <<activeFetchControllers, aborted, pc, tabId, kind, res, trace, lastResponse, goneTabs>>

ProxyInit ==
  /\ WorkerInit
  /\ GEMINI_API_KEY \in {"", "key"}
  /\ requests = [q \in Requests |-> NoRequest]
  /\ PanelInit

NextRequest ==
  CHOOSE q \in Requests : requests[q].pc = "idle" /\ \A p \in Requests : p < q => requests[p].pc # "idle"

\* res.status(status).json(body); res.json(body) answers with status 200
Respond(q, status, body) ==
  [requests[q] EXCEPT !.pc = "done", !.response = [status |-> status, body |-> body]]

\* the catch block of a route: res.status(500).json({ ok: false, error: err.message || String(err) })
ProxyCatch(q, err) ==
  [Respond(q, 500, [ok |-> FALSE, error |-> IF err.message # <<>> THEN err.message ELSE <<err.name>>])
     EXCEPT !.threw = TRUE]

KeyMissing(endpoint) ==
  IF endpoint = "/api/generate" THEN <<"GEMINI_API_KEY", " not configured on server.">>
  ELSE <<"GEMINI_API_KEY", " not configured">>

\* fault seeded: the route calls the Gemini API without looking at the key
Receive_NoKeyCheck(endpoint, q) ==
  /\ \E p \in Requests : requests[p].pc = "idle"
  /\ q = NextRequest
  /\ requests' = [requests EXCEPT ![q] = [@ EXCEPT !.pc = "awaitFetch", !.endpoint = endpoint, !.calls = @ + 1]]
  /\ UNCHANGED <<workerVars, GEMINI_API_KEY, panelVars>>

\* a route handler up to its first await: the prompt is built, then the
\* key is checked, then the Gemini API is called
Receive(endpoint, q) ==
  /\ \E p \in Requests : requests[p].pc = "idle"
  /\ q = NextRequest
  /\ requests' =
       [requests EXCEPT ![q] =
          IF GEMINI_API_KEY = ""
          THEN [Respond(q, 500, [ok |-> FALSE, error |-> KeyMissing(endpoint)])
                  EXCEPT !.endpoint = endpoint]
          ELSE [@ EXCEPT !.pc = "awaitFetch", !.endpoint = endpoint, !.calls = @ + 1]]
  /\ UNCHANGED <<workerVars, GEMINI_API_KEY, panelVars>>

\* app.post('/api/generate', ...)
ApiGenerate(q) ==
  /\ q \in Requests
  /\ Receive("/api/generate", q)

\* app.post('/api/summarize', ...)
ApiSummarize(q) ==
  /\ q \in Requests
  /\ Receive("/api/summarize", q)

\* `await fetch(<Gemini API>)` resumes with a response
GeminiFetchResolved(q) ==
  /\ requests[q].pc = "awaitFetch"
  /\ \E status \in GeminiStatuses :
       requests' = [requests EXCEPT ![q] =
                      [@ EXCEPT !.r = status,
                                !.pc = IF ~ResOk(status) THEN "awaitText" ELSE "awaitJson"]]
  /\ UNCHANGED <<workerVars, GEMINI_API_KEY, panelVars>>

\* `await fetch(<Gemini API>)` throws
GeminiFetchRejected(q) ==
  /\ requests[q].pc = "awaitFetch"
  /\ \E err \in NetworkErrors : requests' = [requests EXCEPT ![q] = ProxyCatch(q, err)]
  /\ UNCHANGED <<workerVars, GEMINI_API_KEY, panelVars>>

UpstreamError(endpoint, status) ==
  IF endpoint = "/api/generate" THEN <<"Upstream Gemini API error ", ToString(status)>>
  ELSE <<"Upstream Gemini error">>

UnableToRead(endpoint) ==
  IF endpoint = "/api/generate" THEN <<"<unable to read body>">> ELSE <<"<unable to read>">>

\* fault seeded: the answer to an upstream error is sent without res.status(502)
GeminiTextSettled_NoStatus(q) ==
  /\ requests[q].pc = "awaitText"
  /\ \E bodyText \in GeminiErrorBodies :
       requests' = [requests EXCEPT ![q] =
                      Respond(q, 200, [ok |-> FALSE,
                                       error |-> UpstreamError(requests[q].endpoint, requests[q].r),
                                       details |-> bodyText])]
  /\ UNCHANGED <<workerVars, GEMINI_API_KEY, panelVars>>

\* `await r.text().catch(...)` of the !r.ok branch resumes
GeminiTextSettled(q) ==
  /\ requests[q].pc = "awaitText"
  /\ \E bodyText \in GeminiErrorBodies \cup {UnableToRead(requests[q].endpoint)} :
       requests' = [requests EXCEPT ![q] =
                      Respond(q, 502, [ok |-> FALSE,
                                       error |-> UpstreamError(requests[q].endpoint, requests[q].r),
                                       details |-> bodyText])]
  /\ UNCHANGED <<workerVars, GEMINI_API_KEY, panelVars>>

\* JSON.stringify(data)
Stringify(data) == << ToString(data) >>

\* the text picked out of the parsed answer
GeminiText(endpoint, data) ==
  IF "candidates" \in DOMAIN data THEN data.candidates
  ELSE IF "output" \in DOMAIN data THEN data.output
  ELSE IF "text" \in DOMAIN data THEN data.text
  ELSE IF endpoint = "/api/generate" /\ DOMAIN data = {} THEN <<>>
  ELSE Stringify(data)

\* `await r.json()` resumes with the parsed body, or the body cannot be
\* parsed: /api/generate goes on with null, /api/summarize throws
GeminiJsonSettled(q) ==
  /\ requests[q].pc = "awaitJson"
  /\ \/ \E data \in GeminiBodies :
          requests' = [requests EXCEPT ![q] =
                         Respond(q, 200, [ok |-> TRUE,
                                          text |-> GeminiText(requests[q].endpoint, data),
                                          raw |-> data])]
     \/ \E err \in ParseErrors :
          requests' = [requests EXCEPT ![q] =
                         IF requests[q].endpoint = "/api/generate"
                         THEN Respond(q, 200, [ok |-> TRUE,
                                               text |-> GeminiText(requests[q].endpoint, Null),
                                               raw |-> Null])
                         ELSE ProxyCatch(q, err)]
  /\ UNCHANGED <<workerVars, GEMINI_API_KEY, panelVars>>

ProxyNext ==
  \/ \E q \in Requests : ApiGenerate(q)
  \/ \E q \in Requests : ApiSummarize(q)
  \/ \E q \in Requests : GeminiFetchResolved(q)
  \/ \E q \in Requests : GeminiFetchRejected(q)
  \/ \E q \in Requests : GeminiTextSettled(q)
  \/ \E q \in Requests : GeminiJsonSettled(q)

ProxySpec == ProxyInit /\ [][ProxyNext]_vars

\* The same service worker in a browser whose closed tabs stay closed.
NextClosing ==
  \/ \E s \in Senders : SummarizePage(s)
  \/ \E s \in Senders : QueryGemini(s)
  \/ \E r \in Runs : FetchResolved(r)
  \/ \E r \in Runs : FetchRejected(r)
  \/ \E r \in Runs : TextSettled(r)
  \/ \E r \in Runs : JsonResolved(r)
  \/ \E r \in Runs : JsonRejected(r)
  \/ \E t \in Tabs : TabClosed(t)
  \/ \E s \in Senders : CloseExtension(s)
  \/ \E s \in Senders : AbortRequests(s)

SpecClosing == Init /\ [][NextClosing]_vars

TypeOK ==
  /\ DOMAIN activeFetchControllers \subseteq Keys
  /\ \A k \in DOMAIN activeFetchControllers : activeFetchControllers[k] \subseteq Controllers
  /\ aborted \in [Controllers -> BOOLEAN]
  /\ pc \in [Runs -> {"idle", "awaitFetch", "awaitText", "awaitJson", "done"}]
  /\ tabId \in [Runs -> Senders]
  /\ kind \in [Runs -> Kinds \cup {"none"}]
  /\ res \in [Runs -> Statuses \cup {0}]
  /\ goneTabs \subseteq Tabs
  /\ GEMINI_API_KEY \in {"", "key"}
  /\ \A q \in Requests :
       /\ requests[q].pc \in {"idle", "awaitFetch", "awaitText", "awaitJson", "done"}
       /\ requests[q].endpoint \in Endpoints \cup {"none"}
       /\ requests[q].r \in GeminiStatuses \cup {0}
       /\ requests[q].calls \in 0..1
  /\ chatOpen \in BOOLEAN
  /\ genBtn.disabled \in BOOLEAN
  /\ outstanding \in [{"query_gemini", "summarize_page"} -> 0..MaxSends]
  /\ \A i \in 1..Len(chatArea) : chatArea[i].role \in {"bot-placeholder", "none"}

\* ------------------------------------------------------- the page panels
\* The callbacks the panels pass to chrome.runtime.sendMessage.  A reply is
\* the object the service worker gave to sendResponse, or undefined
\* (MissingResponse) when the message channel closed without one.  A field
\* that is undefined in the reply is absent or <<"undefined">>.
MissingResponse == [f \in {} |-> <<>>]

Falsy(text) == text = <<>> \/ text = <<"undefined">>

\* what the callback of the summary panel writes to resArea.textContent
SummaryReplyCallback(resp) ==
  IF DOMAIN resp = {} THEN <<"No response (messaging error)">>
  ELSE IF ~resp.ok
  THEN <<"Error: ">> \o (IF "error" \in DOMAIN resp /\ ~Falsy(resp.error) THEN resp.error
                          ELSE <<"unknown">>)
  ELSE IF "text" \in DOMAIN resp /\ ~Falsy(resp.text) THEN resp.text
  ELSE IF "text" \in DOMAIN resp.data /\ ~Falsy(resp.data.text) THEN resp.data.text
  ELSE <<ToString(resp.data)>>

\* the replies of the service worker to summarize_page and to query_gemini
SummaryReplies ==
  {MissingResponse, ReplyError(AbortText("summary"))}
    \cup { ReplyOk("summary", data) : data \in JsonBodies }

QueryReplies ==
  {MissingResponse, ReplyError(AbortText("query"))}
    \cup { ReplyOk("query", data) : data \in JsonBodies }

\* the text of the placeholder (its first character is the ellipsis U+2026)
Thinking == <<"...thinking">>

\* what the user has typed, after trim(): nothing, or a question
Inputs == { <<>>, <<"why?">> }

\* appendRightMessage: nothing is appended when the chat area is not in the
\* document; a message of the bot whose text is the placeholder text gets
\* dataset.role = 'bot-placeholder'.
appendRightMessage(open, area, text, isUser) ==
  IF ~open THEN area
  ELSE Append(area, [className |-> IF isUser THEN "user" ELSE "bot",
                     role |-> IF ~isUser /\ text = Thinking THEN "bot-placeholder" ELSE "none",
                     textContent |-> text])

\* resp.data?.text || resp.data?.data?.text || JSON.stringify(resp.data)
ChatReplyText(resp) ==
  IF "text" \in DOMAIN resp.data /\ ~Falsy(resp.data.text) THEN resp.data.text
  ELSE IF "data" \in DOMAIN resp.data /\ "text" \in DOMAIN resp.data.data
          /\ ~Falsy(resp.data.data.text) THEN resp.data.data.text
  ELSE <<ToString(resp.data)>>

\* the callback of the chat panel: the last child of the chat area is
\* removed if it is a placeholder, then the answer is appended
ChatReplyCallback(open, area, resp) ==
  LET children == IF open THEN area ELSE <<>>
      kept == IF children # <<>> /\ children[Len(children)].role = "bot-placeholder"
              THEN SubSeq(area, 1, Len(area) - 1)
              ELSE area
  IN  IF DOMAIN resp = {} THEN appendRightMessage(open, kept, <<"No response (messaging error)">>, FALSE)
      ELSE IF ~resp.ok
      THEN appendRightMessage(open, kept,
                              <<"Error: ">> \o (IF "error" \in DOMAIN resp /\ ~Falsy(resp.error)
                                                THEN resp.error ELSE <<"unknown">>),
                              FALSE)
      ELSE appendRightMessage(open, kept, ChatReplyText(resp), FALSE)

\* toggleRightChatBox: the chat panel is removed, or a new one is built
\* with an empty chat area
ToggleRightChatBox ==
  /\ chatOpen' = ~chatOpen
  /\ chatArea' = <<>>
  /\ UNCHANGED <<genBtn, resArea, outstanding, workerVars, GEMINI_API_KEY, requests>>

\* click on Send of the chat panel with txt typed in the input
SendBtnClick(txt) ==
  /\ txt \in Inputs
  /\ chatOpen
  /\ outstanding["query_gemini"] < MaxSends
  /\ Len(chatArea) < 2 * MaxSends
  /\ IF txt = <<>>
     THEN UNCHANGED <<chatArea, outstanding>>
     ELSE /\ chatArea' = appendRightMessage(chatOpen,
                                            appendRightMessage(chatOpen, chatArea, txt, TRUE),
                                            Thinking, FALSE)
          /\ outstanding' = [outstanding EXCEPT !["query_gemini"] = @ + 1]
  /\ UNCHANGED <<chatOpen, genBtn, resArea, workerVars, GEMINI_API_KEY, requests>>

\* the callback of a query_gemini message runs with the reply resp
QueryReply(resp) ==
  /\ resp \in QueryReplies
  /\ outstanding["query_gemini"] > 0
  /\ chatArea' = ChatReplyCallback(chatOpen, chatArea, resp)
  /\ outstanding' = [outstanding EXCEPT !["query_gemini"] = @ - 1]
  /\ UNCHANGED <<chatOpen, genBtn, resArea, workerVars, GEMINI_API_KEY, requests>>

\* fault seeded: the click handler leaves the button enabled
GenBtnClick_StaysEnabled ==
  /\ ~genBtn.disabled
  /\ outstanding["summarize_page"] < MaxSends
  /\ resArea' = <<"Generating summary...">>
  /\ genBtn' = genBtn
  /\ outstanding' = [outstanding EXCEPT !["summarize_page"] = @ + 1]
  /\ UNCHANGED <<chatOpen, chatArea, workerVars, GEMINI_API_KEY, requests>>

\* click on Generate of the summary panel; a disabled button receives no
\* click event
GenBtnClick ==
  /\ ~genBtn.disabled
  /\ outstanding["summarize_page"] < MaxSends
  /\ resArea' = <<"Generating summary...">>
  /\ genBtn' = [genBtn EXCEPT !.disabled = TRUE]
  /\ outstanding' = [outstanding EXCEPT !["summarize_page"] = @ + 1]
  /\ UNCHANGED <<chatOpen, chatArea, workerVars, GEMINI_API_KEY, requests>>

\* the callback of a summarize_page message runs with the reply resp
SummaryReply(resp) ==
  /\ resp \in SummaryReplies
  /\ outstanding["summarize_page"] > 0
  /\ genBtn' = [genBtn EXCEPT !.disabled = FALSE]
  /\ resArea' = SummaryReplyCallback(resp)
  /\ outstanding' = [outstanding EXCEPT !["summarize_page"] = @ - 1]
  /\ UNCHANGED <<chatOpen, chatArea, workerVars, GEMINI_API_KEY, requests>>

PanelNext ==
  \/ ToggleRightChatBox
  \/ \E txt \in Inputs : SendBtnClick(txt)
  \/ \E resp \in QueryReplies : QueryReply(resp)
  \/ GenBtnClick
  \/ \E resp \in SummaryReplies : SummaryReply(resp)

PanelSpec == Init /\ [][PanelNext]_vars

\* ------------------------------------------------------- reading a trace
CallsOf(r, fn) == SelectSeq(trace[r], LAMBDA c : c.fn = fn)

ArgsOf(r, fn) == LET cs == CallsOf(r, fn) IN [i \in 1..Len(cs) |-> cs[i].arg]

\* the arguments of the run's sendResponse calls, in order
Replies(r) == ArgsOf(r, "sendResponse")

\* the messages the run handed to notifyTab, in order
Notified(r) == ArgsOf(r, "notifyTab")

\* the messages chrome.tabs.sendMessage was given for the run, in order
Sent(r) == LET cs == CallsOf(r, "tabs.sendMessage") IN [i \in 1..Len(cs) |-> cs[i].arg.message]

Finished(r) == SelectSeq(Notified(r), LAMBDA m : m.action = "generation_finished")

Unregisters(r) == Len(CallsOf(r, "removeControllerForTab"))

Resumed(r, what, how) == \E i \in 1..Len(trace[r]) : trace[r][i].fn = what /\ trace[r][i].arg = how

\* what the run's `await what` resumed with
ResumedWith(r, what) == CallsOf(r, what)[1].value

InFlight(r) == pc[r] \in {"awaitFetch", "awaitText", "awaitJson"}

Registered(c) == \E k \in DOMAIN activeFetchControllers : c \in activeFetchControllers[k]

IsTeardown(s) == AbortRequests(s) \/ CloseExtension(s) \/ TabRemoved(s)

\* ---------------------------------------------------------------- claims

\* C1: in every reachable state a key is present in activeFetchControllers
\* if and only if the set stored under it is non-empty.
C1_KeyPresentIffSetNonEmpty ==
  \A k \in Keys :
    (k \in DOMAIN activeFetchControllers) <=> (Get(activeFetchControllers, k) # {})

\* C1 witness: one run of a key has unregistered while another run of the
\* same key is still registered, and the registry holds that key.
C1_Witness ==
  \E a, b \in Runs :
    /\ a # b /\ tabId[a] = tabId[b]
    /\ pc[a] = "done" /\ ~aborted[a]
    /\ pc[b] = "awaitFetch" /\ b \in Get(activeFetchControllers, KeyOf(tabId[b]))

\* C2: a teardown of an origin with N >= 1 registered controllers aborts
\* every one of them and leaves the origin's key absent, and a cleanupTab of
\* the same origin applied right after it aborts nothing and changes nothing.
C2_CancelAllFiresAllAndClears ==
  [][\A s \in Senders :
       (Get(activeFetchControllers, KeyOf(s)) # {} /\ IsTeardown(s)) =>
         /\ \A c \in Get(activeFetchControllers, KeyOf(s)) : aborted'[c]
         /\ KeyOf(s) \notin DOMAIN activeFetchControllers'
         /\ cleanupTab(activeFetchControllers', aborted', s).reg = activeFetchControllers'
         /\ cleanupTab(activeFetchControllers', aborted', s).ab = aborted'
         /\ cleanupTab(activeFetchControllers', aborted', s).logged = Undefined]_vars

\* C2 witness: two controllers of one origin have been aborted by a teardown
\* and the origin's key is absent.
C2_Witness ==
  \E a, b \in Runs :
    /\ a # b /\ tabId[a] = tabId[b]
    /\ aborted[a] /\ aborted[b]
    /\ pc[a] = "awaitFetch" /\ pc[b] = "awaitFetch"
    /\ KeyOf(tabId[a]) \notin DOMAIN activeFetchControllers

\* C3 (as claimed): when an origin has a summarize_page run and a
\* query_gemini run that have not replied yet, a teardown signal for that
\* origin fires the token of both (a run ends Cancelled only if its token
\* was fired) and leaves no controller registered for the origin.
C3_AbortCancelsBothRunsInFlight ==
  [][\A s \in Senders : \A a, b \in Runs :
       ( /\ a # b /\ tabId[a] = s /\ tabId[b] = s
         /\ kind[a] = "summary" /\ kind[b] = "query"
         /\ InFlight(a) /\ InFlight(b)
         /\ IsTeardown(s) ) =>
         /\ aborted'[a] /\ aborted'[b]
         /\ Get(activeFetchControllers', KeyOf(s)) = {}]_vars

\* C4: a run whose token was fired before its fetch settled replies, and
\* notifies, the abort text of its handler with ok false; a run whose token
\* was not fired never does, whatever the message of the error it caught.
C4_FiredTokenEndsCancelled ==
  \A r \in Runs :
    pc[r] = "done" =>
      LET reply == Replies(r)[1]
          note == Finished(r)[1]
          cancelled == /\ ~reply.ok /\ "error" \in DOMAIN reply
                       /\ reply.error = AbortText(kind[r])
                       /\ ~note.ok /\ note.error = AbortText(kind[r])
      IN  aborted[r] <=> cancelled

\* C4 witness: a run has ended after its token was fired, and another one
\* after a network error that is no abort.
C4_Witness ==
  /\ \E r \in Runs : pc[r] = "done" /\ aborted[r]
  /\ \E r \in Runs : pc[r] = "done" /\ ~aborted[r] /\ Resumed(r, "await fetch", "rejected")

\* C5: a run that has replied has its controller in no set of the
\* registry, and once every run has replied the registry is empty.
C5_RepliedRunIsUnregistered ==
  /\ \A r \in Runs : Len(Replies(r)) > 0 => ~Registered(r)
  /\ (\A r \in Runs : pc[r] = "done") => activeFetchControllers = EmptyMap

\* C5 witness: every run has replied, one of them after a non-2xx answer
\* and one after a failed fetch.
C5_Witness ==
  /\ \A r \in Runs : pc[r] = "done" /\ Len(Replies(r)) = 1
  /\ \E r \in Runs : res[r] = 500
  /\ \E r \in Runs : Resumed(r, "await fetch", "rejected") /\ ~aborted[r]

C7_UnregisterAbsentIsNoOp ==
  \A s \in Senders : \A c \in Controllers :
    c \notin Get(activeFetchControllers, KeyOf(s)) =>
      removeControllerForTab(activeFetchControllers, s, c) = activeFetchControllers

\* C7 witness: a run has called removeControllerForTab a second time, when
\* its controller was already removed, while another controller is
\* registered under the same key.
C7_Witness ==
  \E a, b \in Runs :
    /\ a # b /\ tabId[a] = tabId[b]
    /\ pc[a] = "done" /\ Unregisters(a) = 2
    /\ b \in Get(activeFetchControllers, KeyOf(tabId[a]))

\* the place of a trace entry in the order the claim states
Rank(c) ==
  CASE c.fn = "addControllerForTab" -> 1
    [] c.fn = "notifyTab" -> IF c.arg.action = "generation_started" THEN 2 ELSE 6
    [] c.fn = "tabs.sendMessage" -> IF c.arg.message.action = "generation_started" THEN 2 ELSE 6
    [] c.fn = "fetch" -> 3
    [] c.fn = "await fetch" -> 4
    [] c.fn = "removeControllerForTab" -> 5
    [] c.fn \in {"res.text", "res.json", "await res.text", "await res.json"} -> 5
    [] c.fn = "sendResponse" -> 7

\* C8: within a run the register comes first, then the started
\* notification, then the fetch, then its settlement, then the unregister,
\* then the finished notification, then the reply: the trace of a run
\* starts at the first place, never steps back to a lower place and never
\* skips a place.
C8_RunOrder ==
  \A r \in Runs : \A j \in 1..Len(trace[r]) :
    LET here == Rank(trace[r][j])
        before == IF j = 1 THEN 0 ELSE Rank(trace[r][j - 1])
    IN  before <= here /\ here <= before + 1

\* C8 witness: a run of a tab has gone through every place, to its reply.
C8_Witness ==
  \E r \in Runs :
    /\ pc[r] = "done" /\ tabId[r] # Undefined
    /\ Len(trace[r]) >= 7 /\ trace[r][Len(trace[r])].fn = "sendResponse"

\* C9: a run of a tab whose answer is 200 with ok true and a text replies
\* ok with that text, and exactly two messages are sent to its tab for it:
\* generation_started then generation_finished, both of the handler's kind.
C9_SuccessReplyAndTwoNotifications ==
  \A r \in Runs :
    ( /\ pc[r] = "done" /\ tabId[r] # Undefined
      /\ Resumed(r, "await res.json", "resolved")
      /\ ResumedWith(r, "await res.json") = [ok |-> TRUE, text |-> <<"hello">>] ) =>
      LET reply == Replies(r)[1]
          deliveries == CallsOf(r, "tabs.sendMessage")
          sent == Sent(r)
      IN  /\ reply.ok
          /\ IF kind[r] = "summary" THEN reply.text = <<"hello">>
             ELSE reply.data.text = <<"hello">>
          /\ Len(sent) = 2
          /\ sent[1].action = "generation_started" /\ sent[1].kind = kind[r]
          /\ sent[2].action = "generation_finished" /\ sent[2].kind = kind[r]
          /\ sent[2].ok
          /\ \A i \in 1..2 : deliveries[i].arg.tabId = tabId[r]

\* C9 witness: a summarize_page run and a query_gemini run of a tab have
\* both ended on a 200 answer with ok true.
C9_Witness ==
  \E a, b \in Runs :
    /\ kind[a] = "summary" /\ kind[b] = "query"
    /\ \A r \in {a, b} :
         /\ pc[r] = "done" /\ tabId[r] # Undefined
         /\ Resumed(r, "await res.json", "resolved")
         /\ ResumedWith(r, "await res.json") = [ok |-> TRUE, text |-> <<"hello">>]

\* C10 (as claimed): the finished notification of a run carries the ok
\* flag of its reply, and the error of its reply when there is one.
C10_NotificationMatchesReply ==
  \A r \in Runs :
    pc[r] = "done" =>
      LET reply == Replies(r)[1]
          note == Finished(r)[1]
      IN  /\ note.ok = reply.ok
          /\ ("error" \in DOMAIN note) = ("error" \in DOMAIN reply)
          /\ "error" \in DOMAIN reply => note.error = reply.error

\* the error text of a reply after its "Server error <status>: " prefix
BodyPart(error) == SubSeq(error, 4, Len(error))

\* C11: a run whose fetch resolved with a non-2xx status replies once, ok
\* false, with "Server error <status>: " followed by the body it read; it
\* has called fetch once; and when res.text() threw, the reply still has
\* that prefix, followed by a non-empty placeholder that is neither a body
\* nor the text the catch block would reply for the error.
C11_UpstreamErrorCarriesStatusAndBody ==
  \A r \in Runs :
    (pc[r] = "done" /\ res[r] # 0 /\ ~ResOk(res[r])) =>
      LET reply == Replies(r)[1]
      IN  /\ Len(Replies(r)) = 1
          /\ ~reply.ok
          /\ Len(CallsOf(r, "fetch")) = 1
          /\ Len(reply.error) > 3
          /\ SubSeq(reply.error, 1, 3) = <<"Server error ", ToString(res[r]), ": ">>
          /\ IF Resumed(r, "await res.text", "resolved")
             THEN BodyPart(reply.error) = ResumedWith(r, "await res.text")
             ELSE /\ Resumed(r, "await res.text", "rejected")
                  /\ BodyPart(reply.error) \notin ErrorBodies
                  /\ reply.error # ErrText(kind[r], ResumedWith(r, "await res.text"))

\* C11 witness: two runs have ended on a 500 answer, one whose body was
\* read and one, of the query handler, whose res.text() threw.
C11_Witness ==
  \E a, b \in Runs :
    /\ pc[a] = "done" /\ res[a] = 500 /\ Resumed(a, "await res.text", "resolved")
    /\ pc[b] = "done" /\ res[b] = 500 /\ Resumed(b, "await res.text", "rejected")
    /\ kind[b] = "query"

\* what the awaits of a run resumed with, in order
Settles(r) == SelectSeq(trace[r], LAMBDA c : "value" \in DOMAIN c)

\* the deliveries chrome.tabs.sendMessage was asked for on behalf of the run
Deliveries(r) == ArgsOf(r, "tabs.sendMessage")

\* C12: a notification of a run without a tab sends nothing, a notification
\* to a closed tab is not delivered, and neither stops the run: every call
\* of notifyTab is followed by the fetch (started) or by the reply
\* (finished) of the run, a run that has ended has replied exactly once, and
\* two runs of the same handler whose awaits resumed with the same values
\* have given the same reply, whatever their tabs and deliveries were.
C12_ReplyIndependentOfDelivery ==
  /\ \A r \in Runs :
        /\ tabId[r] = Undefined => Deliveries(r) = <<>>
        /\ pc[r] = "done" => Len(Replies(r)) = 1
        /\ \A j \in 1..Len(trace[r]) :
             trace[r][j].fn = "notifyTab" =>
               \E i \in (j + 1)..Len(trace[r]) :
                 trace[r][i].fn = IF trace[r][j].arg.action = "generation_started"
                                  THEN "fetch" ELSE "sendResponse"
  /\ \A a, b \in Runs :
        (pc[a] = "done" /\ pc[b] = "done" /\ kind[a] = kind[b] /\ Settles(a) = Settles(b)) =>
          Replies(a) = Replies(b)

\* C12 witness: two runs of the same handler have ended on the same answer,
\* the finished notification of one delivered and that of the other sent
\* to a tab that was closed.
C12_Witness ==
  \E a, b \in Runs :
    /\ pc[a] = "done" /\ pc[b] = "done" /\ kind[a] = kind[b] /\ Settles(a) = Settles(b)
    /\ Resumed(a, "await res.json", "resolved")
    /\ Len(Deliveries(a)) = 2 /\ Deliveries(a)[2].delivered
    /\ Len(Deliveries(b)) = 2 /\ ~Deliveries(b)[2].delivered

\* C13: a step of chrome.tabs.onRemoved for tab T, of CLOSE_EXTENSION from
\* sender T or of abort_requests from sender T (T undefined when the sender
\* has no tab) removes the key of T, and no other key, from the registry and
\* aborts the controllers that were under that key, and no other; the reply
\* of abort_requests names the same T.
C13_SignalCleansItsOriginOnly ==
  [][\A s \in Senders :
       IsTeardown(s) =>
         /\ activeFetchControllers' = MapDelete(activeFetchControllers, KeyOf(s))
         /\ \A c \in Controllers :
              aborted'[c] = (aborted[c] \/ c \in Get(activeFetchControllers, KeyOf(s)))
         /\ lastResponse' # NoResponse => lastResponse'[1].arg = AbortReply(s)]_vars

\* C13 witness: after an abort_requests of a tab, the run of the tab is
\* aborted while a run without a tab is registered and not aborted.
C13_Witness ==
  \E a, b \in Runs :
    /\ tabId[a] # Undefined /\ tabId[b] = Undefined
    /\ pc[a] = "awaitFetch" /\ pc[b] = "awaitFetch"
    /\ aborted[a] /\ ~aborted[b]
    /\ b \in Get(activeFetchControllers, NoTabKey)
    /\ lastResponse = << Call("sendResponse", AbortReply(tabId[a])) >>

\* the controllers a step aborts
NewlyAborted == { c \in Controllers : aborted'[c] /\ ~aborted[c] }

C15_TeardownOfEmptyOriginChangesNothing ==
  [][\A s \in Senders :
       (Get(activeFetchControllers, KeyOf(s)) = {} /\ IsTeardown(s)) =>
         /\ activeFetchControllers' = activeFetchControllers
         /\ aborted' = aborted
         /\ trace' = trace /\ pc' = pc
         /\ lastResponse' # NoResponse => lastResponse'[1].arg.ok]_vars

\* C15 witness: an abort_requests from a sender without a tab has been
\* answered when no run without a tab was ever started, while the run of a
\* tab is still registered, with its fetch pending and not aborted.
C15_Witness ==
  /\ lastResponse = << Call("sendResponse", AbortReply(Undefined)) >>
  /\ \A r \in Runs : pc[r] # "idle" => tabId[r] # Undefined
  /\ \E r \in Runs : pc[r] = "awaitFetch" /\ ~aborted[r] /\ Registered(r)

\* the run's fetch threw, or resolved with a non-2xx status
Failed(r) == Resumed(r, "await fetch", "rejected") \/ (res[r] # 0 /\ ~ResOk(res[r]))

\* C16: a run that has started has called fetch exactly once, whatever
\* happened to it since; and a run that has ended after its fetch threw (a
\* network error or an abort) or resolved with a non-2xx status has replied
\* ok false with an error text, and its finished notification carries ok
\* false and the same error text.
C16_OneFetchAndFailureMirrored ==
  \A r \in Runs :
    /\ Len(CallsOf(r, "fetch")) = IF pc[r] = "idle" THEN 0 ELSE 1
    /\ (pc[r] = "done" /\ Failed(r)) =>
         LET reply == Replies(r)[1]
             note == Finished(r)[1]
         IN  /\ ~reply.ok /\ reply.error # <<>>
             /\ ~note.ok /\ note.error = reply.error
             /\ trace[r][Len(trace[r])].fn = "sendResponse"

\* C16 witness: one run has ended after a non-2xx answer and another after
\* an aborted fetch.
C16_Witness ==
  \E a, b \in Runs :
    /\ pc[a] = "done" /\ res[a] = 500
    /\ pc[b] = "done" /\ aborted[b] /\ Resumed(b, "await fetch", "rejected")

\* the run has replied that it was aborted
RepliedCancelled(r) ==
  /\ pc[r] = "done" /\ Len(Replies(r)) = 1
  /\ Replies(r)[1] = ReplyError(AbortText(kind[r]))

\* C17: under Fairness, a run whose controller is aborted while its fetch
\* is pending eventually ends with the reply of an aborted run, and a run
\* whose fetch has resolved eventually ends with a reply.
C17_AbortedRunEventuallyRepliesCancelled ==
  \A r \in Runs :
    /\ (pc[r] = "awaitFetch" /\ aborted[r]) ~> RepliedCancelled(r)
    /\ (pc[r] \in {"awaitText", "awaitJson"}) ~> (pc[r] = "done" /\ Len(Replies(r)) = 1)

\* C17 witness: a run aborted with its fetch pending has replied that it
\* was aborted, and another run has replied after its fetch resolved.
C17_Witness ==
  \E a, b \in Runs :
    /\ aborted[a] /\ RepliedCancelled(a)
    /\ pc[b] = "done" /\ Resumed(b, "await fetch", "resolved") /\ Len(Replies(b)) = 1

C19_NothingBetweenUnregisterAndReply ==
  [][\A r \in Runs :
       /\ Len(CallsOf(r, "addControllerForTab")) = 1 =>
            (Len(Notified(r)) >= 1 /\ Notified(r)[1].action = "generation_started")
       /\ (Unregisters(r) >= 1 /\ Replies(r) = <<>>) => trace'[r] # trace[r]]_vars

\* C20 (as claimed): the reply and the finished notification of a run that
\* ended because its controller was aborted differ from those of every run
\* that ended on a network error or a non-2xx answer, and the summary panel
\* does not show the reply of an aborted summarize_page run as an error.
C20_CancelledIsNotShownAsError ==
  \A r \in Runs :
    (pc[r] = "done" /\ aborted[r]) =>
      /\ \A q \in Runs :
           (pc[q] = "done" /\ ~aborted[q] /\ Failed(q)) =>
             /\ Replies(q)[1].error # Replies(r)[1].error
             /\ Finished(q)[1].error # Finished(r)[1].error
      /\ kind[r] = "summary" => SummaryReplyCallback(Replies(r)[1])[1] # "Error: "

\* C21 (as claimed): the reply of a run that has ended either has ok true
\* and the payload of its handler (data for query_gemini, a text for
\* summarize_page), or has ok false and an error text.
C21_ReplyCarriesPayloadOrError ==
  \A r \in Runs :
    pc[r] = "done" =>
      LET reply == Replies(r)[1]
      IN  IF reply.ok
          THEN IF kind[r] = "query" THEN "data" \in DOMAIN reply
               ELSE "text" \in DOMAIN reply /\ ~Falsy(reply.text)
          ELSE "error" \in DOMAIN reply /\ ~Falsy(reply.error)

\* C22: the step that handles an abort_requests message of sender s calls
\* sendResponse once, with ok true, in that same step, and at that point
\* cleanupTab has run: the key of s is absent and every controller that was
\* under it is aborted, however many there were; the step that handles a
\* CLOSE_EXTENSION message calls sendResponse not at all.
C22_AbortAnsweredUnloadNot ==
  [][\A s \in Senders :
       /\ AbortRequests(s) =>
            /\ Len(lastResponse') = 1
            /\ lastResponse'[1].fn = "sendResponse" /\ lastResponse'[1].arg.ok
            /\ KeyOf(s) \notin DOMAIN activeFetchControllers'
            /\ \A c \in Get(activeFetchControllers, KeyOf(s)) : aborted'[c]
       /\ CloseExtension(s) => lastResponse' = NoResponse]_vars

\* C22 witness: an abort_requests has just been answered after aborting a
\* run of its sender, while another run of the sender, whose fetch had
\* resolved, was not registered any more.
C22_Witness ==
  \E a, b \in Runs :
    /\ a # b /\ tabId[a] = tabId[b]
    /\ lastResponse = << Call("sendResponse", AbortReply(tabId[a])) >>
    /\ pc[a] = "awaitFetch" /\ aborted[a]
    /\ pc[b] = "awaitJson" /\ ~aborted[b]

\* the error a run caught: what its rejected await resumed with
Caught(r) ==
  IF Resumed(r, "await fetch", "rejected") THEN ResumedWith(r, "await fetch")
  ELSE ResumedWith(r, "await res.json")

\* C23: a run that has ended after res.json() threw on a 2xx answer, or
\* after its fetch threw while its controller was not aborted, has replied
\* ok false with the message of the error it caught, and its finished
\* notification has ok false and the same message.
C23_TransportErrorCarriesMessage ==
  \A r \in Runs :
    ( /\ pc[r] = "done" /\ ~aborted[r]
      /\ Resumed(r, "await fetch", "rejected") \/ Resumed(r, "await res.json", "rejected") ) =>
      /\ Replies(r) = << ReplyError(Caught(r).message) >>
      /\ Finished(r) = << FinishedError(kind[r], Caught(r).message) >>

\* C23 witness: one run has ended after res.json() threw on a 200 answer
\* and another after a network error of its fetch.
C23_Witness ==
  \E a, b \in Runs :
    /\ pc[a] = "done" /\ res[a] = 200 /\ Resumed(a, "await res.json", "rejected")
    /\ pc[b] = "done" /\ ~aborted[b] /\ Resumed(b, "await fetch", "rejected")

\* a JavaScript string, as the model writes it
IsString(v) == v \in Seq(STRING)

C26_ExactlyOneReply ==
  \A r \in Runs :
    Len(Replies(r)) = IF pc[r] = "done" THEN 1 ELSE 0

\* C26 witness: a run has ended after res.text() threw on a non-2xx answer
\* and another after res.json() threw on a 2xx answer.
C26_Witness ==
  \E a, b \in Runs :
    /\ pc[a] = "done" /\ Resumed(a, "await res.text", "rejected") /\ Len(Replies(a)) = 1
    /\ pc[b] = "done" /\ Resumed(b, "await res.json", "rejected") /\ Len(Replies(b)) = 1

\* C27: a run whose fetch has resolved is in no set of the registry from
\* then on, while its body is read and after; its controller is never
\* aborted, whatever teardown comes for its origin; and when it ends, its
\* reply and its finished notification are not those of an aborted run.
C27_BodyReadIsOutOfReach ==
  \A r \in Runs :
    Resumed(r, "await fetch", "resolved") =>
      /\ ~Registered(r)
      /\ ~aborted[r]
      /\ pc[r] = "done" =>
           /\ Replies(r)[1] # ReplyError(AbortText(kind[r]))
           /\ Finished(r)[1] # FinishedError(kind[r], AbortText(kind[r]))

\* C27 witness: an abort_requests of a run's sender has just been handled
\* while the run was reading the body of its answer; it aborted another
\* run of the sender, and not this one.
C27_Witness ==
  \E a, b \in Runs :
    /\ a # b /\ tabId[a] = tabId[b]
    /\ pc[a] \in {"awaitText", "awaitJson"} /\ ~aborted[a]
    /\ pc[b] = "awaitFetch" /\ aborted[b]
    /\ lastResponse = << Call("sendResponse", AbortReply(tabId[a])) >>

\* C28: in every reachable state no controller that is in a set of the
\* registry is aborted, and every run that awaits its fetch with a
\* controller that is not aborted has that controller in the set of the
\* key of its sender.
C28_RegisteredIffPendingAndNotAborted ==
  /\ \A k \in DOMAIN activeFetchControllers : \A c \in activeFetchControllers[k] : ~aborted[c]
  /\ \A r \in Runs :
       (pc[r] = "awaitFetch" /\ ~aborted[r]) => r \in Get(activeFetchControllers, KeyOf(tabId[r]))

\* C28 witness: of two runs awaiting their fetch, one has been aborted by
\* a teardown and is in no set, the other started afterwards for the same
\* sender and is registered.
C28_Witness ==
  \E a, b \in Runs :
    /\ a < b /\ tabId[a] = tabId[b]
    /\ pc[a] = "awaitFetch" /\ aborted[a] /\ ~Registered(a)
    /\ pc[b] = "awaitFetch" /\ ~aborted[b] /\ Registered(b)

\* C29: when a teardown has aborted run A, whose catch block has not run
\* yet, and run B of the same sender has registered since, the
\* removeControllerForTab of A's catch block leaves the registry as it is:
\* B's controller stays in the set of the sender's key, not aborted, and a
\* later cleanupTab of the sender aborts it.
C29_LateUnregisterKeepsNewRun ==
  \A a, b \in Runs :
    ( /\ a # b /\ tabId[a] = tabId[b]
      /\ pc[a] = "awaitFetch" /\ aborted[a]
      /\ pc[b] = "awaitFetch" /\ ~aborted[b] ) =>
      LET after == removeControllerForTab(activeFetchControllers, tabId[a], a)
      IN  /\ after = activeFetchControllers
          /\ b \in Get(after, KeyOf(tabId[b]))
          /\ cleanupTab(after, aborted, tabId[b]).ab[b]

\* C29 witness: run A was aborted by a teardown and its catch block has
\* not run; run B of the same sender started after A and is registered.
C29_Witness ==
  \E a, b \in Runs :
    /\ a < b /\ tabId[a] = tabId[b]
    /\ pc[a] = "awaitFetch" /\ aborted[a] /\ ~Registered(a)
    /\ pc[b] = "awaitFetch" /\ ~aborted[b]
    /\ b \in Get(activeFetchControllers, KeyOf(tabId[b]))
    /\ lastResponse = NoResponse

\* C30: in every reachable state, cleanupTab for a sender O leaves every
\* other key as it is: present or absent as before, with the same set, and
\* with the abort flag of the controller of every run of another sender
\* unchanged (by C4 a run replies that it was aborted only if its own
\* controller is aborted).
C30_CleanupLeavesOtherOrigins ==
  \A s \in Senders :
    LET out == cleanupTab(activeFetchControllers, aborted, s)
    IN  \A k \in Keys \ {KeyOf(s)} :
          /\ (k \in DOMAIN out.reg) = (k \in DOMAIN activeFetchControllers)
          /\ Get(out.reg, k) = Get(activeFetchControllers, k)
          /\ \A r \in Runs : (pc[r] # "idle" /\ KeyOf(tabId[r]) = k) => out.ab[r] = aborted[r]

\* C30 witness: a CLOSE_EXTENSION or tab removal has aborted the run of a
\* tab while the run of a sender without a tab stays registered and not
\* aborted, its fetch pending.
C30_Witness ==
  \E a, b \in Runs :
    /\ tabId[a] # Undefined /\ tabId[b] = Undefined
    /\ pc[a] = "awaitFetch" /\ aborted[a] /\ ~Registered(a)
    /\ pc[b] = "awaitFetch" /\ ~aborted[b] /\ b \in Get(activeFetchControllers, NoTabKey)
    /\ lastResponse = NoResponse

\* C31: a teardown reaches only the controllers that are registered under
\* its key when it runs.  In every step, the controller of a run that has
\* not started yet stays not aborted; a run that starts is put in the set of
\* its sender's key with a controller that is not aborted, whatever teardown
\* was handled before; and a registered controller leaves the registry or
\* is aborted only when its own fetch settles or by a cleanupTab of its
\* sender's key.  A message of any sender is accepted while a controller is
\* left to construct.
C31_TeardownReachesOnlyRegistered ==
  /\ [](\A s \in Senders :
          ((\E r \in Runs : pc[r] = "idle") /\ (s = Undefined \/ s <= Cardinality(KnownTabs) + 1))
            => ENABLED SummarizePage(s) /\ ENABLED QueryGemini(s))
  /\ [][\A r \in Runs :
          /\ pc[r] = "idle" => ~aborted'[r]
          /\ (pc[r] = "idle" /\ pc'[r] # "idle") =>
               r \in Get(activeFetchControllers', KeyOf(tabId'[r]))
          /\ (Registered(r) /\ (aborted'[r] \/ r \notin Get(activeFetchControllers', KeyOf(tabId[r])))) =>
               \/ pc[r] = "awaitFetch" /\ pc'[r] # "awaitFetch" /\ ~aborted'[r]
               \/ /\ pc' = pc
                  /\ activeFetchControllers' = cleanupTab(activeFetchControllers, aborted, tabId[r]).reg
                  /\ aborted' = cleanupTab(activeFetchControllers, aborted, tabId[r]).ab]_vars

\* C31 witness: run A of a sender was aborted by a teardown and has replied
\* that it was cancelled; run B of the same sender started after the
\* teardown and is still registered, not aborted, its fetch pending.
C31_Witness ==
  \E a, b \in Runs :
    /\ a < b /\ tabId[a] = tabId[b]
    /\ pc[a] = "done" /\ aborted[a] /\ RepliedCancelled(a)
    /\ pc[b] = "awaitFetch" /\ ~aborted[b]
    /\ b \in Get(activeFetchControllers, KeyOf(tabId[b]))

\* C32 (as claimed): every sender without a tab is registered under the one
\* key 'no-tab' and no tab id maps to that key; an abort_requests or a
\* CLOSE_EXTENSION of a sender without a tab aborts the controller of every
\* run of a sender without a tab that has not replied yet, and of no run
\* of a tab.
C32_NoTabSendersShareOneKey ==
  [][/\ \A t \in Tabs : KeyOf(t) # NoTabKey
     /\ KeyOf(Undefined) = NoTabKey
     /\ (AbortRequests(Undefined) \/ CloseExtension(Undefined)) =>
          \A r \in Runs :
            /\ (tabId[r] = Undefined /\ InFlight(r)) => aborted'[r]
            /\ (pc[r] # "idle" /\ tabId[r] # Undefined) => aborted'[r] = aborted[r]]_vars

\* C33 (as claimed): in the chat panel, once the callback of every
\* query_gemini message has run, no child of the chat area is a
\* '...thinking' placeholder, however many messages were sent before the
\* first reply and in whatever order the replies came.
C33_NoPlaceholderOnceAnswered ==
  outstanding["query_gemini"] = 0 =>
    \A i \in 1..Len(chatArea) : chatArea[i].role # "bot-placeholder"

\* C34: in one summary panel the Generate button is disabled exactly while
\* a summarize_page message of the panel has no reply yet, so at most one
\* such message is outstanding; after the reply callback has run (no
\* response, ok false or ok true) the button is enabled and the result area
\* shows what the callback wrote for that reply.
C34_GenerateDisabledWhileOutstanding ==
  /\ outstanding["summarize_page"] <= 1
  /\ genBtn.disabled <=> outstanding["summarize_page"] = 1
  /\ genBtn.disabled => resArea = <<"Generating summary...">>
  /\ (~genBtn.disabled /\ resArea # <<>>) => \E resp \in SummaryReplies : resArea = SummaryReplyCallback(resp)

\* C34 witness: the reply of an aborted run has come back to a click on
\* Generate: the result area shows its error and the button is enabled.
C34_Witness ==
  /\ ~genBtn.disabled
  /\ outstanding["summarize_page"] = 0
  /\ resArea = <<"Error: ", "Request aborted">>

====
